---- MODULE Spec2Model ----
(***************************************************************************)
(* A model of gempy's structural data model:                              *)
(*   gempy/core/data/structural_frame.py  (StructuralFrame)               *)
(*   gempy/core/data/orientations.py      (OrientationsTable)             *)
(* Groups are identified by their 0-based position in                     *)
(* StructuralFrame.structural_groups (oldest first).                      *)
(***************************************************************************)
EXTENDS Integers, Sequences, FiniteSets, TLC

\* Number of structural groups of the frame.
NGroups == 3

GroupIds == 0 .. (NGroups - 1)

\* StackRelationType values a group can carry; only FAULT is told apart by the frame.
Relations == {"ERODE", "FAULT"}

VARIABLES
    structural_groups,  \* GroupIds -> [structural_relation, fault_relations]
    is_dirty,           \* StructuralFrame.is_dirty
    ret,                \* what the last read of frame.fault_relations returned
    arg_matrix,         \* the matrix the caller hands to the fault_relations setter
    pc,                 \* position of the caller's script
    group_elements,     \* GroupIds -> the group's list of elements [name, color]
    color_gen,          \* the color generator's position in its sequence
    ret_volumes,        \* last value read from elements_colors_volumes
    ret_contacts,       \* last value read from elements_colors_contacts
    ret_id_name,        \* last value read from element_id_name_map
    ret_name_id,        \* last value read from element_name_id_map
    data,               \* OrientationsTable.data: the rows of the whole table
    n_points,           \* number of surface point groups, with ids 0 .. n_points-1
    orientations_groups \* the caller's list of OrientationsTable groups

frameVars == <<structural_groups, is_dirty, ret, arg_matrix>>

viewVars == <<group_elements, color_gen, ret_volumes, ret_contacts, ret_id_name, ret_name_id>>

tableVars == <<data, n_points, orientations_groups>>

vars == <<frameVars, pc, viewVars, tableVars>>

----------------------------------------------------------------------------
(* Values of StructuralGroup.fault_relations *)

OFFSET_ALL == [tag |-> "OFFSET_ALL", refs |-> <<>>]

OFFSET_NONE == [tag |-> "OFFSET_NONE", refs |-> <<>>]

\* A Python list of group references, here the referenced groups' indices.
GroupList(refs) == [tag |-> "list", refs |-> refs]

RECURSIVE AscendingList(_, _)
\* [j for j in range(from, NGroups) if j in S]
AscendingList(S, from) ==
    IF from >= NGroups THEN <<>>
    ELSE IF from \in S THEN <<from>> \o AscendingList(S, from + 1)
    ELSE AscendingList(S, from + 1)

\* The values an edit or the constructor's caller can store in fault_relations.
FaultRelationValues ==
    {OFFSET_ALL, OFFSET_NONE} \cup {GroupList(AscendingList(S, 0)) : S \in SUBSET GroupIds}

GroupValues == [structural_relation : Relations, fault_relations : FaultRelationValues]

\* The N x N boolean matrices.
Matrices == [GroupIds -> [GroupIds -> BOOLEAN]]

ZeroMatrix == [i \in GroupIds |-> [j \in GroupIds |-> FALSE]]

----------------------------------------------------------------------------
(* StructuralFrame.fault_relations, the getter *)

\* As SetRowYounger, with the slice starting at the diagonal: fault_relations[i, i:] = True
SetRowFromDiagonal(m, i) == [m EXCEPT ![i] = [j \in GroupIds |-> IF j >= i THEN TRUE ELSE m[i][j]]]

\* fault_relations[i, i + 1:] = True
SetRowYounger(m, i) == [m EXCEPT ![i] = [j \in GroupIds |-> IF j > i THEN TRUE ELSE m[i][j]]]

\* As OlderReferenced, with the test j < i: a fault may reference itself.
StrictlyOlderReferenced(i, refs) == \E k \in 1 .. Len(refs) : refs[k] < i

\* The loop over fault_groups: raises as soon as one j <= i, and writes nothing.
OlderReferenced(i, refs) == \E k \in 1 .. Len(refs) : refs[k] <= i

RECURSIVE GetterLoop(_, _, _)
GetterLoop(groups, i, m) ==
    IF i >= NGroups THEN [kind |-> "matrix", m |-> m]
    ELSE LET group == groups[i]
             fr == group.fault_relations
         IN  IF group.structural_relation = "FAULT" /\ fr = OFFSET_ALL
                 THEN GetterLoop(groups, i + 1, SetRowYounger(m, i))
             ELSE IF group.structural_relation = "FAULT" /\ fr = OFFSET_NONE
                 THEN GetterLoop(groups, i + 1, m)
             ELSE IF group.structural_relation = "FAULT" /\ fr.tag = "list" /\ Len(fr.refs) > 0
                 THEN IF OlderReferenced(i, fr.refs)
                         THEN [kind |-> "error", err |-> "OrderingViolation", at |-> i]
                         ELSE GetterLoop(groups, i + 1, m)
             ELSE IF group.structural_relation = "FAULT"
                 THEN [kind |-> "error", err |-> "InvalidFaultRelation", at |-> i]
             ELSE GetterLoop(groups, i + 1, m)

fault_relations_get(groups) == GetterLoop(groups, 0, ZeroMatrix)

----------------------------------------------------------------------------
(* StructuralFrame.fault_relations, the setter *)

\* np.all(affected_groups[i + 1:]): true of the empty slice.
all_younger_groups_affected(matrix, i) == \A j \in GroupIds : j > i => matrix[i][j]

\* np.any(affected_groups[i + 1:]): false of the empty slice.
any_younger_groups_affected(matrix, i) == \E j \in GroupIds : j > i /\ matrix[i][j]

\* As SetterGroup, without the promotion to FAULT of a group that offsets all younger ones.
SetterGroupKeepsRelation(group, matrix, i) ==
    IF all_younger_groups_affected(matrix, i)
        THEN [group EXCEPT !.fault_relations = OFFSET_ALL]
    ELSE IF ~any_younger_groups_affected(matrix, i)
        THEN [group EXCEPT !.fault_relations = OFFSET_NONE]
    ELSE [structural_relation |-> "FAULT",
          fault_relations |-> GroupList(AscendingList({j \in GroupIds : matrix[i][j]}, 0))]

SetterGroup(group, matrix, i) ==
    IF all_younger_groups_affected(matrix, i)
        THEN [structural_relation |-> "FAULT", fault_relations |-> OFFSET_ALL]
    ELSE IF ~any_younger_groups_affected(matrix, i)
        THEN [group EXCEPT !.fault_relations = OFFSET_NONE]
    ELSE [structural_relation |-> "FAULT",
          fault_relations |-> GroupList(AscendingList({j \in GroupIds : matrix[i][j]}, 0))]

fault_relations_set(groups, matrix) == [i \in GroupIds |-> SetterGroup(groups[i], matrix, i)]


----------------------------------------------------------------------------
(* The flattened element views of StructuralFrame *)

\* Element names the caller gives; the frame itself checks nothing about them.
ElementNames == {"layer1", "layer2"}

\* Colors the caller gives to its elements.
ElementColors == {"#000000", "#ffffff"}

\* Most elements a group holds.
MaxGroupElements == 1

\* The color generator's sequence of tokens, none of them used by an element.
Palette == <<"gen0", "gen1", "gen2", "gen3">>

Elements == [name : ElementNames, color : ElementColors]

ElementLists == UNION {[1 .. n -> Elements] : n \in 0 .. MaxGroupElements}

\* ColorsGenerator.up_next(): the next token of the sequence; the caller advances color_gen.
up_next(gen) == Palette[gen + 1]

\* StructuralFrame._basement_element: built anew, with a newly drawn color, on every read.
basement_element(gen) == [name |-> "basement", color |-> up_next(gen)]

RECURSIVE ExtendGroups(_, _)
\* for group in self.structural_groups: elements.extend(group.elements)
ExtendGroups(groups, i) ==
    IF i >= NGroups THEN <<>> ELSE groups[i] \o ExtendGroups(groups, i + 1)

\* StructuralFrame.structural_elements
structural_elements(groups, gen) == Append(ExtendGroups(groups, 0), basement_element(gen))

\* seq[::-1]
Reversed(seq) == [k \in 1 .. Len(seq) |-> seq[Len(seq) + 1 - k]]

\* [element.color for element in self.structural_elements]
elements_colors_contacts(groups, gen) ==
    LET elements == structural_elements(groups, gen)
    IN  [k \in 1 .. Len(elements) |-> elements[k].color]

\* [element.color for element in self.structural_elements][::-1]
elements_colors(groups, gen) == Reversed(elements_colors_contacts(groups, gen))

elements_colors_volumes(groups, gen) == elements_colors(groups, gen)

\* {i: element.name for i, element in enumerate(self.structural_elements)}
element_id_name_map(groups, gen) ==
    LET elements == structural_elements(groups, gen)
    IN  [i \in 0 .. (Len(elements) - 1) |-> elements[i + 1].name]

\* {element.name: i for i, element in enumerate(self.structural_elements)}:
\* a later element of the same name overwrites the key's value.
element_name_id_map(groups, gen) ==
    LET elements == structural_elements(groups, gen)
        positions == 0 .. (Len(elements) - 1)
    IN  [name \in {elements[i + 1].name : i \in positions} |->
            CHOOSE i \in positions :
                /\ elements[i + 1].name = name
                /\ \A k \in positions : elements[k + 1].name = name => k <= i]

----------------------------------------------------------------------------
(* OrientationsTable *)

\* Largest element id of a row.
MaxId == 3

\* Most rows of a table.
MaxRows == 3

IdValues == 0 .. MaxId

\* A row of data: its id, and pos standing for the row's coordinates and gradient.
RowsOfLength(n) == {rows \in [1 .. n -> [id : IdValues, pos : 1 .. n]] :
                        \A k \in 1 .. n : rows[k].pos = k}

Tables == UNION {RowsOfLength(n) : n \in 0 .. MaxRows}

\* np.unique(self.data['id']), as a set; numpy returns it in ascending order.
UniqueIds(rows) == {rows[k].id : k \in 1 .. Len(rows)}

RECURSIVE SortedFrom(_, _)
\* The ascending sequence of the ids of S that are >= from.
SortedFrom(S, from) ==
    IF from > MaxId THEN <<>>
    ELSE IF from \in S THEN <<from>> \o SortedFrom(S, from + 1)
    ELSE SortedFrom(S, from + 1)

\* np.unique(self.data['id'])
unique(rows) == SortedFrom(UniqueIds(rows), 0)

\* As IdMatches, with the comparison <= in place of ==.
IdAtMost(row, id) == row.id <= id

\* self.data['id'] == id, of one row
IdMatches(row, id) == row.id = id

\* OrientationsTable.get_orientations_by_id: self.data[self.data['id'] == id]
get_orientations_by_id(rows, id) == SelectSeq(rows, LAMBDA row : IdMatches(row, id))

\* OrientationsTable.get_orientations_by_id_groups
get_orientations_by_id_groups(rows) ==
    LET ids == unique(rows)
    IN  [k \in 1 .. Len(ids) |-> get_orientations_by_id(rows, ids[k])]

\* OrientationsTable.id
table_id(rows) ==
    LET ids == unique(rows)
    IN  IF Len(ids) > 1 THEN [kind |-> "error", err |-> "MixedIds"]
        ELSE IF Len(ids) = 0 THEN [kind |-> "error", err |-> "EmptyTable"]
        ELSE [kind |-> "id", id |-> ids[1]]

\* cls(data=np.zeros(0, dtype=cls.dt))
EmptyTable == <<>>

\* list.insert(index, x) for index >= 0: past the end it appends.
ListInsert(list, index, x) ==
    IF index >= Len(list) THEN Append(list, x)
    ELSE SubSeq(list, 1, index) \o <<x>> \o SubSeq(list, index + 1, Len(list))

RECURSIVE InsertAll(_, _)
\* for empty_orientation, id in zip(empty_orientations, missing_ids): insert(id, ...)
InsertAll(groups, missing_ids) ==
    IF missing_ids = <<>> THEN groups
    ELSE InsertAll(ListInsert(groups, Head(missing_ids), EmptyTable), Tail(missing_ids))

\* The orders list(set) can hand out the members of S in.
Orderings(S) == {order \in [1 .. Cardinality(S) -> S] :
                    \A a, b \in 1 .. Cardinality(S) : a # b => order[a] # order[b]}

\* set(surface_points_ids) - set(orientations_ids); every group's id accessor succeeds.
MissingIds(groups, surface_points_ids) ==
    surface_points_ids \ {table_id(groups[k]).id : k \in 1 .. Len(groups)}

\* OrientationsTable.fill_missing_orientations_groups, with missing_ids in the given order.
fill_missing_orientations_groups(groups, n_surface_points_groups, missing_ids) ==
    IF n_surface_points_groups > Len(groups) THEN InsertAll(groups, missing_ids) ELSE groups

----------------------------------------------------------------------------
(* Values of the variables a specification does not use *)

NoReturn == [kind |-> "none"]

NoMatrix == [kind |-> "none"]

Unread == [kind |-> "unread"]

\* A value a view handed back to its reader.
Returned(value) == [kind |-> "value", val |-> value]

FrameIdle ==
    /\ structural_groups = [i \in GroupIds |-> [structural_relation |-> "ERODE",
                                                fault_relations |-> OFFSET_NONE]]
    /\ is_dirty = TRUE
    /\ ret = NoReturn
    /\ arg_matrix = NoMatrix

ViewsIdle ==
    /\ group_elements = [i \in GroupIds |-> <<>>]
    /\ color_gen = 0
    /\ ret_volumes = Unread
    /\ ret_contacts = Unread
    /\ ret_id_name = Unread
    /\ ret_name_id = Unread

TablesIdle ==
    /\ data = <<>>
    /\ n_points = 0
    /\ orientations_groups = <<>>

----------------------------------------------------------------------------
(* Spec: the frame's groups under any sequence of edits, assignments and reads *)

\* StructuralFrame(structural_groups, color_gen), the groups as the caller built them.
Init ==
    /\ structural_groups \in [GroupIds -> GroupValues]
    /\ is_dirty = TRUE
    /\ ret = NoReturn
    /\ arg_matrix = NoMatrix
    /\ pc = "frame"
    /\ ViewsIdle
    /\ TablesIdle

\* frame.fault_relations
ReadFaultRelations ==
    /\ ret' = fault_relations_get(structural_groups)
    /\ UNCHANGED <<structural_groups, is_dirty, arg_matrix, pc, viewVars, tableVars>>

\* frame.fault_relations = matrix
AssignFaultRelations ==
    \E matrix \in Matrices :
        /\ structural_groups' = fault_relations_set(structural_groups, matrix)
        /\ ret' = NoReturn
        /\ UNCHANGED <<is_dirty, arg_matrix, pc, viewVars, tableVars>>

\* group.structural_relation = r, on one of the frame's groups
EditStructuralRelation ==
    \E i \in GroupIds, r \in Relations :
        /\ structural_groups' = [structural_groups EXCEPT ![i].structural_relation = r]
        /\ ret' = NoReturn
        /\ UNCHANGED <<is_dirty, arg_matrix, pc, viewVars, tableVars>>

\* group.fault_relations = v, on one of the frame's groups
EditFaultRelations ==
    \E i \in GroupIds, v \in FaultRelationValues :
        /\ structural_groups' = [structural_groups EXCEPT ![i].fault_relations = v]
        /\ ret' = NoReturn
        /\ UNCHANGED <<is_dirty, arg_matrix, pc, viewVars, tableVars>>

Next ==
    \/ ReadFaultRelations
    \/ AssignFaultRelations
    \/ EditStructuralRelation
    \/ EditFaultRelations

Spec == Init /\ [][Next]_vars

\* SpecRead: the getter alone, read on every frame the groups' fields can make up.
NextRead == ReadFaultRelations

SpecRead == Init /\ [][NextRead]_vars

----------------------------------------------------------------------------
(* SpecAssign, SpecRoundTrip: one assignment of a matrix to a built frame, then a read *)

\* The fault_relations a caller gives a group it builds: a special case or a short list.
BuiltFaultRelationValues ==
    {OFFSET_ALL, OFFSET_NONE, GroupList(<<>>)} \cup {GroupList(<<j>>) : j \in GroupIds}

BuiltGroupValues == [structural_relation : Relations, fault_relations : BuiltFaultRelationValues]

\* Strictly upper-triangular matrices: true only above the diagonal.
StrictlyUpper(m) == \A i, j \in GroupIds : m[i][j] => j > i

AboveDiagonal == {p \in GroupIds \X GroupIds : p[2] > p[1]}

StrictlyUpperMatrices ==
    {[i \in GroupIds |-> [j \in GroupIds |-> <<i, j>> \in S]] : S \in SUBSET AboveDiagonal}

\* A frame as its caller built it, and the matrix the caller is about to assign.
InitBuilt ==
    /\ structural_groups \in [GroupIds -> BuiltGroupValues]
    /\ is_dirty = TRUE
    /\ ret = NoReturn
    /\ pc = "built"
    /\ ViewsIdle
    /\ TablesIdle

InitAssign == arg_matrix \in Matrices /\ InitBuilt

InitRoundTrip == arg_matrix \in StrictlyUpperMatrices /\ InitBuilt

\* A consumer clears the flag after recomputing: frame.is_dirty = False
ClearDirty ==
    /\ pc = "built"
    /\ is_dirty
    /\ is_dirty' = FALSE
    /\ UNCHANGED <<structural_groups, ret, arg_matrix, pc, viewVars, tableVars>>

\* frame.fault_relations = arg_matrix
AssignArgument ==
    /\ pc = "built"
    /\ structural_groups' = fault_relations_set(structural_groups, arg_matrix)
    /\ pc' = "assigned"
    /\ UNCHANGED <<is_dirty, ret, arg_matrix, viewVars, tableVars>>

\* frame.fault_relations, read right after the assignment
ReadAssigned ==
    /\ pc = "assigned"
    /\ ret' = fault_relations_get(structural_groups)
    /\ pc' = "read"
    /\ UNCHANGED <<structural_groups, is_dirty, arg_matrix, viewVars, tableVars>>

NextAssign ==
    \/ ClearDirty
    \/ AssignArgument
    \/ ReadAssigned

SpecAssign == InitAssign /\ [][NextAssign]_vars

SpecRoundTrip == InitRoundTrip /\ [][NextAssign]_vars

----------------------------------------------------------------------------
(* SpecViews: reads of the flattened views of an unmodified frame *)

InitViews ==
    /\ FrameIdle
    /\ pc = "views"
    /\ group_elements \in [GroupIds -> ElementLists]
    /\ color_gen = 0
    /\ ret_volumes = Unread
    /\ ret_contacts = Unread
    /\ ret_id_name = Unread
    /\ ret_name_id = Unread
    /\ TablesIdle

\* Every read of structural_elements draws one color; the palette bounds the reads.
DrawColor ==
    /\ color_gen < Len(Palette)
    /\ color_gen' = color_gen + 1

\* frame.elements_colors_volumes
ReadColorsVolumes ==
    /\ DrawColor
    /\ ret_volumes' = Returned(elements_colors_volumes(group_elements, color_gen))
    /\ UNCHANGED <<frameVars, pc, group_elements, ret_contacts, ret_id_name, ret_name_id, tableVars>>

\* frame.elements_colors_contacts
ReadColorsContacts ==
    /\ DrawColor
    /\ ret_contacts' = Returned(elements_colors_contacts(group_elements, color_gen))
    /\ UNCHANGED <<frameVars, pc, group_elements, ret_volumes, ret_id_name, ret_name_id, tableVars>>

\* frame.element_id_name_map
ReadIdNameMap ==
    /\ DrawColor
    /\ ret_id_name' = Returned(element_id_name_map(group_elements, color_gen))
    /\ UNCHANGED <<frameVars, pc, group_elements, ret_volumes, ret_contacts, ret_name_id, tableVars>>

\* frame.element_name_id_map
ReadNameIdMap ==
    /\ DrawColor
    /\ ret_name_id' = Returned(element_name_id_map(group_elements, color_gen))
    /\ UNCHANGED <<frameVars, pc, group_elements, ret_volumes, ret_contacts, ret_id_name, tableVars>>

NextViews ==
    \/ ReadColorsVolumes
    \/ ReadColorsContacts
    \/ ReadIdNameMap
    \/ ReadNameIdMap

SpecViews == InitViews /\ [][NextViews]_vars

----------------------------------------------------------------------------
(* SpecTables: a table is split by id, then the missing groups are filled in *)

InitTables ==
    /\ FrameIdle
    /\ ViewsIdle
    /\ pc = "table"
    /\ data \in Tables
    /\ n_points \in 0 .. (MaxId + 1)
    /\ orientations_groups = <<>>

\* orientations_groups = orientations.get_orientations_by_id_groups()
GroupsById ==
    /\ pc = "table"
    /\ orientations_groups' = get_orientations_by_id_groups(data)
    /\ pc' = "grouped"
    /\ UNCHANGED <<frameVars, viewVars, data, n_points>>

\* OrientationsTable.fill_missing_orientations_groups(orientations_groups, surface_points_groups)
\* list(set) hands out the missing ids in an order the language leaves open.
FillMissing ==
    /\ pc = "grouped"
    /\ \E missing_ids \in Orderings(MissingIds(orientations_groups, 0 .. (n_points - 1))) :
            orientations_groups' =
                fill_missing_orientations_groups(orientations_groups, n_points, missing_ids)
    /\ pc' = "filled"
    /\ UNCHANGED <<frameVars, viewVars, data, n_points>>

NextTables ==
    \/ GroupsById
    \/ FillMissing

SpecTables == InitTables /\ [][NextTables]_vars

----------------------------------------------------------------------------
(* Properties of the fault relations getter, under Spec and SpecRead *)

\* The column indices a list of group references names.
Referenced(refs) == {refs[k] : k \in 1 .. Len(refs)}

IsFault(group) == group.structural_relation = "FAULT"

HasExplicitList(group) == group.fault_relations.tag = "list" /\ Len(group.fault_relations.refs) > 0

\* C1: when a read of faultRelations returns a matrix, every FAULT group i with a
\* non-empty explicit list whose references all sit at indices j > i has row i true
\* exactly at the referenced indices.
C1_ExplicitListRow ==
    ret.kind = "matrix" =>
        \A i \in GroupIds :
            LET group == structural_groups[i]
                refs == Referenced(group.fault_relations.refs)
            IN  (IsFault(group) /\ HasExplicitList(group) /\ \A j \in refs : j > i)
                    => \A j \in GroupIds : ret.m[i][j] <=> j \in refs

\* C2: every read of faultRelations that succeeds, after any sequence of assignments
\* and edits, returns an N x N matrix true only above the diagonal, and all false
\* when no group has relation FAULT.
C2_StrictlyUpperTriangular ==
    ret.kind = "matrix" =>
        /\ DOMAIN ret.m = GroupIds
        /\ \A i \in GroupIds : DOMAIN ret.m[i] = GroupIds
        /\ \A i, j \in GroupIds : ret.m[i][j] => j > i
        /\ (\A i \in GroupIds : ~IsFault(structural_groups[i]))
                => \A i, j \in GroupIds : ~ret.m[i][j]

\* A read succeeded with some offset in the matrix, on a frame that also holds an explicit list.
C2_Witness ==
    /\ ret.kind = "matrix"
    /\ \E i, j \in GroupIds : ret.m[i][j]
    /\ \E i \in GroupIds : HasExplicitList(structural_groups[i])

\* The FAULT groups whose explicit list references an older group or the group itself.
OlderReferencing(groups) ==
    {i \in GroupIds : IsFault(groups[i]) /\ groups[i].fault_relations.tag = "list"
                        /\ \E j \in Referenced(groups[i].fault_relations.refs) : j <= i}

\* The FAULT groups whose fault_relations is neither a special case nor a non-empty list.
InvalidGroups(groups) ==
    {i \in GroupIds : IsFault(groups[i]) /\ groups[i].fault_relations.tag = "list"
                        /\ groups[i].fault_relations.refs = <<>>}

\* C4 as stated: a read fails with OrderingViolation, returning no matrix, whenever some
\* FAULT group's explicit list references a group at an index j <= i; and the group a
\* failure is raised for is always a FAULT group.
C4_OrderingViolationWhenever ==
    ret.kind # "none" =>
        /\ OlderReferencing(structural_groups) # {}
                => (ret.kind = "error" /\ ret.err = "OrderingViolation")
        /\ ret.kind = "error" => IsFault(structural_groups[ret.at])

\* C4 as amended: such a read always fails and returns no matrix; the failure is the
\* OrderingViolation unless a FAULT group older than every such group holds an invalid
\* fault_relations, and then it is the InvalidFaultRelation of that older group; the
\* group a failure is raised for is always a FAULT group.
C4_FailsOnOlderReference ==
    ret.kind # "none" =>
        /\ OlderReferencing(structural_groups) # {}
                => /\ ret.kind = "error"
                   /\ ret.err = "OrderingViolation"
                        <=> \E i \in OlderReferencing(structural_groups) :
                                \A k \in InvalidGroups(structural_groups) : i < k
                   /\ ret.err \in {"OrderingViolation", "InvalidFaultRelation"}
        /\ ret.kind = "error" => IsFault(structural_groups[ret.at])

\* A read failed with OrderingViolation on a frame where a group that is not a FAULT
\* also holds a list referencing an older group.
C4_Witness ==
    /\ ret.kind = "error"
    /\ ret.err = "OrderingViolation"
    /\ \E i \in GroupIds :
            /\ ~IsFault(structural_groups[i])
            /\ \E j \in Referenced(structural_groups[i].fault_relations.refs) : j <= i

----------------------------------------------------------------------------
(* Properties of the fault relations setter, under SpecAssign and SpecRoundTrip *)

\* The step in which the setter runs.
SetterReturns == pc = "built" /\ pc' = "assigned"

\* C3: after the setter ran, every group i whose row has no true entry in the columns
\* > i, the youngest group included, has fault_relations = "offset none" and the
\* structural_relation it had before (so the all-false matrix changes no relation).
C3_NoOffsetRowKeepsRelation ==
    [][SetterReturns =>
        \A i \in GroupIds :
            (\A j \in GroupIds : j > i => ~arg_matrix[i][j])
                => /\ structural_groups'[i].fault_relations = OFFSET_NONE
                   /\ structural_groups'[i].structural_relation
                        = structural_groups[i].structural_relation]_vars

\* C5: for a strictly upper-triangular matrix and any row i with a column > i and all of
\* its columns > i true, the read that follows the assignment succeeds and returns
\* row i of the assigned matrix.
C5_RoundTripOffsetAll ==
    (pc = "read" /\ \A i, j \in GroupIds : arg_matrix[i][j] => j > i) =>
        \A i \in GroupIds :
            ((\E j \in GroupIds : j > i) /\ \A j \in GroupIds : j > i => arg_matrix[i][j])
                => /\ ret.kind = "matrix"
                   /\ \A j \in GroupIds : ret.m[i][j] = arg_matrix[i][j]

\* The read came back after a matrix with a fully true row and another row with no
\* offset was assigned.
C5_Witness ==
    /\ pc = "read"
    /\ ret.kind = "matrix"
    /\ \E i \in GroupIds :
            /\ \E j \in GroupIds : j > i
            /\ \A j \in GroupIds : j > i => arg_matrix[i][j]
            /\ \E j \in GroupIds : ret.m[i][j]
    /\ \E i \in GroupIds :
            /\ \E j \in GroupIds : j > i
            /\ \A j \in GroupIds : ~arg_matrix[i][j]

\* C7: when the setter changed some group's structural_relation or fault_relations,
\* the dirty flag is true when it returns, also after a consumer had cleared it.
C7_DirtyAfterAssignment ==
    [][(SetterReturns /\ structural_groups' # structural_groups) => is_dirty']_vars

\* C11: the read that immediately follows the assignment of any N x N boolean matrix
\* (true entries on or below the diagonal included) succeeds: it returns a matrix and
\* fails with neither OrderingViolation nor InvalidFaultRelation.
C11_ReadAfterAssignmentSucceeds ==
    pc = "read" => ret.kind = "matrix"

----------------------------------------------------------------------------
(* Properties of the flattened views, under SpecViews *)

\* E: the number of elements the frame's groups hold.
NumberOfGroupElements == Len(ExtendGroups(group_elements, 0))

\* C6: the list read from elementsColorsVolumes is the reverse of the list read from
\* elementsColorsContacts on the same unmodified frame, the basement's entry included.
C6_VolumesReverseOfContacts ==
    (ret_volumes.kind = "value" /\ ret_contacts.kind = "value") =>
        /\ Len(ret_volumes.val) = Len(ret_contacts.val)
        /\ \A k \in 1 .. Len(ret_volumes.val) :
                ret_volumes.val[k] = ret_contacts.val[Len(ret_contacts.val) + 1 - k]

\* C10: elementIdToName and elementNameToId have E + 1 entries each, map the element at
\* flattened position k to and from k for every k in 0 .. E, and give the basement E.
C10_DenseInverseMaps ==
    (ret_id_name.kind = "value" /\ ret_name_id.kind = "value") =>
        LET E == NumberOfGroupElements
            id_name == ret_id_name.val
            name_id == ret_name_id.val
        IN  /\ DOMAIN id_name = 0 .. E
            /\ Cardinality(DOMAIN name_id) = E + 1
            /\ \A k \in 0 .. E : id_name[k] \in DOMAIN name_id /\ name_id[id_name[k]] = k
            /\ \A name \in DOMAIN name_id : id_name[name_id[name]] = name
            /\ id_name[E] = "basement"

----------------------------------------------------------------------------
(* Properties of the orientation tables, under SpecTables *)

\* The rows of the table that carry the id, in the table's order.
RowsWithId(id) == SelectSeq(data, LAMBDA row : row.id = id)

\* C8: when the point groups carry the ids 0 .. n-1 and the orientation groups a proper
\* subset of them in ascending order, the filled list has n tables, and position k holds
\* the orientation group of id k if there was one and an empty table otherwise.
C8_FilledGroupsIndexAligned ==
    (/\ pc = "filled"
     /\ UniqueIds(data) \subseteq 0 .. (n_points - 1)
     /\ UniqueIds(data) # 0 .. (n_points - 1)) =>
        /\ Len(orientations_groups) = n_points
        /\ \A k \in 0 .. (n_points - 1) :
                orientations_groups[k + 1] = IF k \in UniqueIds(data) THEN RowsWithId(k) ELSE <<>>

\* C9: groupsById of a non-empty table returns one table per distinct id in ascending id
\* order; every row of the table is in exactly one returned table, once; each returned
\* table holds rows of one id, which its id accessor returns; and the rows of a returned
\* table are in their original relative order.
C9_GroupsPartitionTable ==
    (pc = "grouped" /\ Len(data) > 0) =>
        LET groups == orientations_groups
            places == {<<k, q>> \in (1 .. Len(groups)) \X (1 .. Len(data)) : q <= Len(groups[k])}
        IN  /\ Len(groups) = Cardinality({data[p].id : p \in 1 .. Len(data)})
            /\ \A k \in 1 .. Len(groups) :
                    /\ Len(groups[k]) > 0
                    /\ \A q \in 1 .. Len(groups[k]) : groups[k][q].id = groups[k][1].id
                    /\ table_id(groups[k]) = [kind |-> "id", id |-> groups[k][1].id]
                    /\ \A q \in 1 .. (Len(groups[k]) - 1) : groups[k][q].pos < groups[k][q + 1].pos
            /\ \A k \in 1 .. (Len(groups) - 1) : groups[k][1].id < groups[k + 1][1].id
            /\ \A p \in 1 .. Len(data) :
                    Cardinality({pl \in places : groups[pl[1]][pl[2]] = data[p]}) = 1
            /\ Cardinality(places) = Len(data)

\* A table whose ids are not in ascending order was split into several groups, one of
\* them of several rows.
C9_Witness ==
    /\ pc = "grouped"
    /\ Len(orientations_groups) > 1
    /\ \E k \in 1 .. Len(orientations_groups) : Len(orientations_groups[k]) > 1
    /\ \E p \in 1 .. (Len(data) - 1) : data[p].id > data[p + 1].id

====
